---- MODULE Spec2Model ----
(***************************************************************************)
(* A model of image-titler (src/image_titler/processor.py and cli.py):     *)
(* the geometry of the crop, the overlay bar, the logo and the text, the   *)
(* binary search for the font size, the font resolver and the pipeline of  *)
(* process() inside the batch loop of main().                              *)
(*                                                                         *)
(* The source computes its geometry in Python floats (IEEE-754 binary64)   *)
(* and truncates with int().  The first part of the module is binary64    *)
(* arithmetic on the operations the source uses: int / int, int * float,   *)
(* 1 - float, max and int().                                               *)
(***************************************************************************)
EXTENDS Integers, Sequences, FiniteSets, TLC

(***************************************************************************)
(* Natural numbers of any size: sequences of limbs, least significant      *)
(* first, no leading zero limb.  A binary64 mantissa has 53 bits.          *)
(***************************************************************************)
RECURSIVE Pow2(_)
Pow2(k) == IF k = 0 THEN 1 ELSE 2 * Pow2(k - 1)

RECURSIVE IntBitLen(_)
IntBitLen(n) == IF n = 0 THEN 0 ELSE 1 + IntBitLen(n \div 2)

Base == 2^15
LimbBits == IntBitLen(Base) - 1
\* 52 stored bits and the implicit leading one
MantBits == 52 + 1

RECURSIVE BNorm(_)
BNorm(x) ==
  IF x = <<>> THEN x
  ELSE IF x[Len(x)] = 0 THEN BNorm(SubSeq(x, 1, Len(x) - 1)) ELSE x

RECURSIVE BFromInt(_)
BFromInt(n) == IF n = 0 THEN <<>> ELSE <<n % Base>> \o BFromInt(n \div Base)

RECURSIVE BToInt(_)
BToInt(x) == IF x = <<>> THEN 0 ELSE x[1] + Base * BToInt(Tail(x))

RECURSIVE BMulCarry(_, _, _)
BMulCarry(x, a, c) ==
  IF x = <<>> THEN BFromInt(c)
  ELSE LET t == x[1] * a + c
       IN  <<t % Base>> \o BMulCarry(Tail(x), a, t \div Base)

BMulSmall(x, a) == BNorm(BMulCarry(x, a, 0))

RECURSIVE BDivFrom(_, _, _, _)
BDivPut(rest, digit) == [q |-> rest.q \o <<digit>>, r |-> rest.r]

BDivFrom(x, b, i, r) ==
  IF i = 0 THEN [q |-> <<>>, r |-> r]
  ELSE BDivPut(BDivFrom(x, b, i - 1, (r * Base + x[i]) % b),
               (r * Base + x[i]) \div b)

BDivNorm(d) == [q |-> BNorm(d.q), r |-> d.r]

BDivSmall(x, b) == BDivNorm(BDivFrom(x, b, Len(x), 0))

BZeros(j) == [i \in 1..j |-> 0]

BShl(x, k) ==
  IF x = <<>> THEN x
  ELSE BZeros(k \div LimbBits) \o BMulSmall(x, Pow2(k % LimbBits))

BShr(x, k) ==
  LET j == k \div LimbBits
  IN  IF j >= Len(x) THEN <<>>
      ELSE BDivSmall(SubSeq(x, j + 1, Len(x)), Pow2(k % LimbBits)).q

BBitLen(x) ==
  IF x = <<>> THEN 0 ELSE LimbBits * (Len(x) - 1) + IntBitLen(x[Len(x)])

BBit(x, k) ==
  LET j == k \div LimbBits + 1
  IN  IF j > Len(x) THEN 0 ELSE (x[j] \div Pow2(k % LimbBits)) % 2

\* x mod 2^k is not zero
BLowNonZero(x, k) ==
  LET j == k \div LimbBits
  IN  \/ \E i \in 1..j : i <= Len(x) /\ x[i] # 0
      \/ j + 1 <= Len(x) /\ x[j + 1] % Pow2(k % LimbBits) # 0

RECURSIVE BAddCarry(_, _)
BAddCarry(x, c) ==
  IF c = 0 THEN x
  ELSE IF x = <<>> THEN <<c>>
  ELSE LET t == x[1] + c
       IN  <<t % Base>> \o BAddCarry(Tail(x), t \div Base)

\* x - y for x >= y
RECURSIVE BSubBorrow(_, _, _)
BSubBorrow(x, y, bw) ==
  IF x = <<>> THEN <<>>
  ELSE LET yi == IF y = <<>> THEN 0 ELSE y[1]
           t  == x[1] - yi - bw
           yt == IF y = <<>> THEN y ELSE Tail(y)
       IN  IF t < 0 THEN <<t + Base>> \o BSubBorrow(Tail(x), yt, 1)
           ELSE <<t>> \o BSubBorrow(Tail(x), yt, 0)

BSub(x, y) == BNorm(BSubBorrow(x, y, 0))

RECURSIVE BGreaterFrom(_, _, _)
BGreaterFrom(x, y, i) ==
  IF i = 0 THEN FALSE
  ELSE IF x[i] # y[i] THEN x[i] > y[i]
  ELSE BGreaterFrom(x, y, i - 1)

BGreater(x, y) ==
  IF Len(x) # Len(y) THEN Len(x) > Len(y) ELSE BGreaterFrom(x, y, Len(x))

(***************************************************************************)
(* binary64 values >= 0: [m, e] stands for m * 2^e with 2^52 <= m < 2^53,  *)
(* and FZero for 0.0.  FRound is round-to-nearest, ties-to-even, of the    *)
(* exact value n * 2^e (plus a non-zero remainder below n when sticky).    *)
(***************************************************************************)
FZero == [m |-> <<>>, e |-> 0]

\* q * 2^e, where rounding up may have carried q to 2^53
FCarried(q, e) ==
  IF BBitLen(q) > MantBits THEN [m |-> BShr(q, 1), e |-> e + 1]
  ELSE [m |-> q, e |-> e]

\* n without its s low bits, rounded: up when the bits cut off are more than
\* half a unit, or half a unit and q is odd
FCut(n, q, s, sticky) ==
  IF /\ BBit(n, s - 1) = 1
     /\ (sticky \/ BLowNonZero(n, s - 1) \/ BBit(q, 0) = 1)
  THEN BAddCarry(q, 1)
  ELSE q

FRoundLen(n, e, sticky, L) ==
  IF L = 0 THEN FZero
  ELSE IF L <= MantBits
  THEN [m |-> BShl(n, MantBits - L), e |-> e - (MantBits - L)]
  ELSE FCarried(FCut(n, BShr(n, L - MantBits), L - MantBits, sticky),
                e + L - MantBits)

FRound(n, e, sticky) == FRoundLen(n, e, sticky, BBitLen(n))

\* a / b on two ints (Python true division), a >= 0, b > 0
FQuotient(d, e) == FRound(d.q, e, d.r # 0)

FDivInt(a, b) ==
  IF a = 0 THEN FZero
  ELSE FQuotient(BDivSmall(BShl(BFromInt(a), 5 * LimbBits), b), 0 - 5 * LimbBits)

\* a * x, a an int >= 0
FMulInt(a, x) ==
  IF a = 0 \/ x.m = <<>> THEN FZero
  ELSE FRound(BMulSmall(x.m, a), x.e, FALSE)

\* 1 - x for 0 <= x <= 1
FOneMinus(x) ==
  IF x.m = <<>> THEN FRound(<<1>>, 0, FALSE)
  ELSE FRound(BSub(BShl(<<1>>, 0 - x.e), x.m), x.e, FALSE)

\* x > y
FGreater(x, y) ==
  IF y.m = <<>> THEN x.m # <<>>
  ELSE IF x.m = <<>> THEN FALSE
  ELSE IF x.e # y.e THEN x.e > y.e
  ELSE BGreater(x.m, y.m)

\* Python's max(x, y): the first argument unless the second is greater
FMax(x, y) == IF FGreater(y, x) THEN y ELSE x

\* int(x): truncation toward zero
FTrunc(x) ==
  IF x.m = <<>> THEN 0
  ELSE IF x.e >= 0 THEN BToInt(BShl(x.m, x.e))
  ELSE BToInt(BShr(x.m, 0 - x.e))

(***************************************************************************)
(* Strings are sequences of one-character strings, so that the source's    *)
(* lower(), replace(), split(), endswith() and `in` are computed.          *)
(***************************************************************************)
\* the characters str.lower() changes and what it makes of them: the letters
\* A-Z and the capital letters of Latin-1 (a character of a string here is
\* one of the first 256 code points)
UpperCase ==
  <<"A", "B", "C", "D", "E", "F", "G", "H", "I", "J", "K", "L", "M",
    "N", "O", "P", "Q", "R", "S", "T", "U", "V", "W", "X", "Y", "Z",
    "À", "Á", "Â", "Ã", "Ä", "Å", "Æ", "Ç", "È", "É", "Ê", "Ë", "Ì",
    "Í", "Î", "Ï", "Ð", "Ñ", "Ò", "Ó", "Ô", "Õ", "Ö", "Ø", "Ù", "Ú",
    "Û", "Ü", "Ý", "Þ">>
LowerCase ==
  <<"a", "b", "c", "d", "e", "f", "g", "h", "i", "j", "k", "l", "m",
    "n", "o", "p", "q", "r", "s", "t", "u", "v", "w", "x", "y", "z",
    "à", "á", "â", "ã", "ä", "å", "æ", "ç", "è", "é", "ê", "ë", "ì",
    "í", "î", "ï", "ð", "ñ", "ò", "ó", "ô", "õ", "ö", "ø", "ù", "ú",
    "û", "ü", "ý", "þ">>

LowerOf ==
  [c \in {UpperCase[i] : i \in 1..Len(UpperCase)} |->
     LowerCase[CHOOSE i \in 1..Len(UpperCase) : UpperCase[i] = c]]

LowerChar(c) == IF c \in DOMAIN LowerOf THEN LowerOf[c] ELSE c

\* str.lower()
Lower(s) == [i \in 1..Len(s) |-> LowerChar(s[i])]

\* the characters str.split() splits on, those str.isspace() holds of: tab,
\* line feed, vertical tab, form feed, carriage return, the separators
\* 0x1c-0x1f, the blank, next line (0x85) and the no-break space (0xa0)
WhiteSpace ==
  {"\t", "\n", "", "\f", "\r", "", "", "", "", " ", "", " "}

IsSpace(c) == c \in WhiteSpace

\* needle in hay
Contains(hay, needle) ==
  \E i \in 1..(Len(hay) - Len(needle) + 1) :
    SubSeq(hay, i, i + Len(needle) - 1) = needle

\* str.endswith(suffix)
EndsWith(s, suffix) ==
  /\ Len(s) >= Len(suffix)
  /\ SubSeq(s, Len(s) - Len(suffix) + 1, Len(s)) = suffix

\* str.replace(" ", by), by a string
RECURSIVE ReplaceSpace(_, _)
ReplaceSpace(s, by) ==
  IF s = <<>> THEN <<>>
  ELSE (IF s[1] = " " THEN by ELSE <<s[1]>>) \o ReplaceSpace(Tail(s), by)

\* str.split(): the words between runs of whitespace
RECURSIVE SplitFrom(_, _, _)
SplitFrom(s, i, word) ==
  IF i > Len(s) THEN (IF word = <<>> THEN <<>> ELSE <<word>>)
  ELSE IF IsSpace(s[i])
  THEN (IF word = <<>> THEN <<>> ELSE <<word>>) \o SplitFrom(s, i + 1, <<>>)
  ELSE SplitFrom(s, i + 1, Append(word, s[i]))

Split(s) == SplitFrom(s, 1, <<>>)

\* ''.join(words)
RECURSIVE Join(_)
Join(words) == IF words = <<>> THEN <<>> ELSE words[1] \o Join(Tail(words))

TTF == <<".", "t", "t", "f">>
OTF == <<".", "o", "t", "f">>

(***************************************************************************)
(* _find_system_font.  `listing` is what the os.walk loops enumerate, in   *)
(* their order: the file names of the existing font directories.           *)
(***************************************************************************)
style_priorities ==
  << <<"r", "e", "g", "u", "l", "a", "r">>,
     <<"r", "g">>,
     <<"n", "o", "r", "m", "a", "l">>,
     <<"b", "o", "o", "k">>,
     <<"m", "e", "d", "i", "u", "m">>,
     <<"r", "o", "m", "a", "n">>,
     <<"s", "t", "a", "n", "d", "a", "r", "d">> >>

variant_styles ==
  << <<"i", "t", "a", "l", "i", "c">>,
     <<"o", "b", "l", "i", "q", "u", "e">>,
     <<"b", "o", "l", "d">>,
     <<"l", "i", "g", "h", "t">>,
     <<"t", "h", "i", "n">>,
     <<"h", "e", "a", "v", "y">>,
     <<"b", "l", "a", "c", "k">>,
     <<"c", "o", "n", "d", "e", "n", "s", "e", "d">>,
     <<"e", "x", "p", "a", "n", "d", "e", "d">>,
     <<"n", "a", "r", "r", "o", "w">>,
     <<"w", "i", "d", "e">> >>

\* the list built at lines 45-52; font_name.split()[0] needs a first word
name_variations(font_name) ==
  << font_name,
     ReplaceSpace(font_name, <<>>),
     ReplaceSpace(font_name, <<"_">>),
     ReplaceSpace(font_name, <<"-">>),
     Split(font_name)[1],
     Join(Split(font_name)) >>

\* the two filters of the walk loop
IsFontFile(file) == EndsWith(Lower(file), TTF) \/ EndsWith(Lower(file), OTF)

AnyIn(file_lower, variations) ==
  \E v \in 1..Len(variations) : Contains(file_lower, Lower(variations[v]))

MatchesName(file, font_name) == AnyIn(Lower(file), name_variations(font_name))

\* matching_fonts: the indexes of the listing kept, in enumeration order
RECURSIVE MatchingFrom(_, _, _)
MatchingFrom(listing, font_name, i) ==
  IF i > Len(listing) THEN <<>>
  ELSE (IF IsFontFile(listing[i]) /\ MatchesName(listing[i], font_name)
        THEN <<i>> ELSE <<>>) \o MatchingFrom(listing, font_name, i + 1)

matching_fonts(listing, font_name) == MatchingFrom(listing, font_name, 1)

ExactMatchScore == 1000
StylePenalty == 50
StyleBonusBase == 100

\* the bonus of the first preferred style found (100 - i, i from 0)
RECURSIVE StyleBonusFrom(_, _)
StyleBonusFrom(font_lower, i) ==
  IF i > Len(style_priorities) THEN 0
  ELSE IF Contains(font_lower, style_priorities[i])
  THEN StyleBonusBase - (i - 1)
  ELSE StyleBonusFrom(font_lower, i + 1)

VariantCount(font_lower) ==
  Cardinality({i \in 1..Len(variant_styles) :
                 Contains(font_lower, variant_styles[i])})

score_lower(font_lower, name_lower) ==
  IF font_lower = name_lower \o TTF \/ font_lower = name_lower \o OTF
  THEN ExactMatchScore
  ELSE StyleBonusFrom(font_lower, 1)
       - StylePenalty * VariantCount(font_lower)
       - Len(font_lower)

score_font(font_file, font_name) == score_lower(Lower(font_file), Lower(font_name))

\* a sort that is not stable: an element goes before those of equal score
RECURSIVE InsertByScoreUnstable(_, _, _, _)
InsertByScoreUnstable(sorted, i, listing, font_name) ==
  IF sorted = <<>> THEN <<i>>
  ELSE IF score_font(listing[sorted[1]], font_name)
            > score_font(listing[i], font_name)
  THEN <<sorted[1]>> \o InsertByScoreUnstable(Tail(sorted), i, listing, font_name)
  ELSE <<i>> \o sorted

\* list.sort(key=score, reverse=True): stable, so an element goes behind
\* every element already placed whose score is at least its own
RECURSIVE InsertByScore(_, _, _, _)
InsertByScore(sorted, i, listing, font_name) ==
  IF sorted = <<>> THEN <<i>>
  ELSE IF score_font(listing[sorted[1]], font_name)
            >= score_font(listing[i], font_name)
  THEN <<sorted[1]>> \o InsertByScore(Tail(sorted), i, listing, font_name)
  ELSE <<i>> \o sorted

RECURSIVE SortByScore(_, _, _)
SortByScore(matches, listing, font_name) ==
  IF matches = <<>> THEN <<>>
  ELSE InsertByScore(
         SortByScore(SubSeq(matches, 1, Len(matches) - 1), listing, font_name),
         matches[Len(matches)], listing, font_name)

\* an exception: its class and the chain of its message
Raise(kind, msg) == [kind |-> kind, msg |-> msg]
NoError == Raise("none", <<>>)

\* os.environ["WINDIR"] on win32 needs the variable
FontDirsError(platform, windir) ==
  IF platform = "win32" /\ ~windir THEN Raise("KeyError", <<"WINDIR">>)
  ELSE NoError

\* lines 106-149: raise when nothing matched, else sort and take the first
best_match(matches, listing, font_name) ==
  IF matches = <<>>
  THEN [err |-> Raise("FontError", <<"not found in system fonts">>), path |-> 0]
  ELSE [err |-> NoError, path |-> SortByScore(matches, listing, font_name)[1]]

\* _find_system_font: [err, path]; path is the index in the listing of the
\* file whose path is returned, 0 when it raises
find_system_font(font_name, listing, platform, windir) ==
  IF FontDirsError(platform, windir) # NoError
  THEN [err |-> FontDirsError(platform, windir), path |-> 0]
  ELSE IF Split(font_name) = <<>>
  THEN [err |-> Raise("IndexError", <<"list index out of range">>), path |-> 0]
  ELSE best_match(matching_fonts(listing, font_name), listing, font_name)

(***************************************************************************)
(* Geometry: the constants of ImageProcessor and the sizes its methods     *)
(* compute.  0.1 and 0.5 are the binary64 values of the literals.          *)
(***************************************************************************)
TARGET_WIDTH == 1920
TARGET_HEIGHT == 1080
OVERLAY_HEIGHT_RATIO == FDivInt(1, 10)
MARGIN_RATIO == FDivInt(1, 10)
DEFAULT_BLUR_RADIUS == 5
MaxAlpha == 255

\* _resize_and_crop, lines 224-228
resize_ratio(w, h) ==
  FMax(FDivInt(TARGET_WIDTH, w), FDivInt(TARGET_HEIGHT, h))

scaled(w, h, ratio) ==
  [w |-> FTrunc(FMulInt(w, ratio)), h |-> FTrunc(FMulInt(h, ratio))]

new_size(w, h) == scaled(w, h, resize_ratio(w, h))

\* lines 234-237; // is floor division, as \div
crop_box(resized) ==
  LET left == (resized.w - TARGET_WIDTH) \div 2
      top  == (resized.h - TARGET_HEIGHT) \div 2
  IN  [left |-> left, top |-> top,
       right |-> left + TARGET_WIDTH, bottom |-> top + TARGET_HEIGHT]

\* the bar height had round() been used in place of int()
overlay_height_rounded(h) == (h + 5) \div 10

\* lines 243, 259, 304
overlay_height(h) == FTrunc(FMulInt(h, OVERLAY_HEIGHT_RATIO))

\* the alpha had the percentage not been inverted
overlay_alpha_direct(transparency) ==
  FTrunc(FMulInt(MaxAlpha, FDivInt(transparency, 100)))

\* line 245
overlay_alpha(transparency) ==
  FTrunc(FMulInt(MaxAlpha, FOneMinus(FDivInt(transparency, 100))))

\* line 202
blur_opacity(blur_amount) == FTrunc(FMulInt(MaxAlpha, FDivInt(blur_amount, 100)))

\* the margin had round() been used in place of int()
margin_rounded(oh) == (oh + 5) \div 10

\* lines 260, 305
margin_of(oh) == FTrunc(FMulInt(oh, MARGIN_RATIO))

\* line 306
max_text_height_of(oh) == FTrunc(FMulInt(oh, FDivInt(1, 2)))

\* lines 274, 309-310
viewport_start_x == (TARGET_WIDTH - TARGET_HEIGHT) \div 2
viewport_end_x == viewport_start_x + TARGET_HEIGHT

\* lines 261-268
logo_size(oh, logo) ==
  scaled(logo.w, logo.h, FDivInt(oh - 2 * margin_of(oh), logo.h))

\* lines 275-279, from the margin and the logo's new size
logo_x_at(margin) == viewport_start_x + margin
logo_right_x_at(margin, size) == logo_x_at(margin) + size.w + margin

logo_right_x_of(oh, logo) == logo_right_x_at(margin_of(oh), logo_size(oh, logo))

\* getattr(self, 'logo_right_x', ...): the attribute is unset until a logo
\* has been composited
Unset == 0 - 1

\* lines 304-314
layout_from(oh, margin, max_text_height, lrx) ==
  [overlay_height  |-> oh,
   margin          |-> margin,
   max_text_height |-> max_text_height,
   text_right_x    |-> viewport_end_x - margin,
   text_left_min_x |-> IF lrx = Unset THEN viewport_start_x + margin ELSE lrx]

layout_of_bar(oh, lrx) ==
  layout_from(oh, margin_of(oh), max_text_height_of(oh), lrx)

text_layout(canvas_h, lrx) == layout_of_bar(overlay_height(canvas_h), lrx)

(***************************************************************************)
(* The text fitter of _add_text.  The renderer is outside the repository:  *)
(* a text is given by what draw.textbbox measures for it at each size, a   *)
(* width of wPer and a height of hNum / hDen per point, from the bearing   *)
(* `top`, and tallBy more at the sizes in `tall`, where the font renders   *)
(* irregularly.                                                            *)
(***************************************************************************)
textbbox(text, size) ==
  LET height == (text.hNum * size) \div text.hDen
                + (IF size \in text.tall THEN text.tallBy ELSE 0)
  IN  <<0, text.top, text.wPer * size, text.top + height>>

\* line 346
Feasible(bbox, layout) ==
  /\ bbox[4] - bbox[2] <= layout.max_text_height
  /\ layout.text_right_x - (bbox[3] - bbox[1]) >= layout.text_left_min_x

NoBBox == <<0, 0, 0, 0>>

\* lines 326-329; current_font_size 0 stands for None
search_init(layout) ==
  [min_size |-> 1, max_size |-> layout.max_text_height * 2,
   current_font_size |-> 0, current_bbox |-> NoBBox]

\* the loop condition, line 331
search_running(st) == st.min_size <= st.max_size

mid_size_of(st) == (st.min_size + st.max_size) \div 2

\* one pass of the loop body, lines 332-351
probe(st, mid_size, bbox, layout) ==
  IF Feasible(bbox, layout)
  THEN [st EXCEPT !.current_font_size = mid_size,
                  !.current_bbox = bbox,
                  !.min_size = mid_size + 1]
  ELSE [st EXCEPT !.max_size = mid_size - 1]

\* a pass with the two branches swapped
search_step_swapped(st, text, layout) ==
  IF Feasible(textbbox(text, mid_size_of(st)), layout)
  THEN [st EXCEPT !.max_size = mid_size_of(st) - 1]
  ELSE [st EXCEPT !.current_font_size = mid_size_of(st),
                  !.current_bbox = textbbox(text, mid_size_of(st)),
                  !.min_size = mid_size_of(st) + 1]

search_step(st, text, layout) ==
  probe(st, mid_size_of(st), textbbox(text, mid_size_of(st)), layout)

RECURSIVE search_loop(_, _, _)
search_loop(st, text, layout) ==
  IF search_running(st) THEN search_loop(search_step(st, text, layout), text, layout)
  ELSE st

\* lines 361-385: where the ink of the text lands
rect_of(final_bbox, layout) ==
  LET text_width       == final_bbox[3] - final_bbox[1]
      text_height      == final_bbox[4] - final_bbox[2]
      overlay_center_y == layout.overlay_height \div 2
      text_y           == overlay_center_y - (text_height \div 2) - final_bbox[2]
      text_x           == layout.text_right_x - text_width
  IN  [x0 |-> text_x + final_bbox[1], y0 |-> text_y + final_bbox[2],
       x1 |-> text_x + final_bbox[3], y1 |-> text_y + final_bbox[4]]

text_rect(size, text, layout) == rect_of(textbbox(text, size), layout)

(***************************************************************************)
(* State.  Three machines share the definitions above: the font resolver   *)
(* called on its own, _add_text with its search loop taken pass by pass,   *)
(* and process() inside its callers.  A specification starts one of them   *)
(* and leaves the others idle.                                             *)
(***************************************************************************)
VARIABLES
  font_in,    \* the arguments and the host of a _find_system_font call
  font_out,   \* what the call returned or raised
  font_pc,    \* "idle", "call", "returned", "raised"
  fit_in,     \* the canvas height, logo, text and font of an _add_text call
  fit_layout, \* the locals of lines 304-314
  fit,        \* the locals of the search loop
  fit_probes, \* how many passes the loop has made
  fit_out,    \* the error raised, the size chosen and where the text went
  fit_pc,     \* "idle", "start", "loop", "drawn", "raised"
  caller,     \* "main" (the batch loop of cli.py) or "api" (process_image)
  images,     \* the input files of the run, in order
  opts,       \* the options of the run
  env,        \* the host: its fonts, whether the output can be written
  fs,         \* the output files that exist: <<image, counter>>
  pc,         \* where the caller or process() is
  idx,        \* the image the loop is at
  out_path,   \* the output path of the image in hand
  canvas,     \* per image: self.input_image
  logo_right_x, \* per image: self.logo_right_x, Unset until _add_logo sets it
  geom,       \* per image: the sizes the steps computed
  ran,        \* per image: the steps that were executed, in order
  outcome     \* per image: what the caller got

fontVars == <<font_in, font_out, font_pc>>
fitVars == <<fit_in, fit_layout, fit, fit_probes, fit_out, fit_pc>>
pipeVars == <<caller, images, opts, env, fs, pc, idx, out_path, canvas,
              logo_right_x, geom, ran, outcome>>
vars == <<fontVars, fitVars, pipeVars>>

Str_Arial == <<"A", "r", "i", "a", "l">>

\* ---- the font resolver on its own ----
File_Arial == Str_Arial \o TTF
File_ArialBold == Str_Arial \o <<"-", "B", "o", "l", "d">> \o TTF
File_ArialNarrowItalic ==
  Str_Arial \o <<" ", "N", "a", "r", "r", "o", "w", " ",
                 "I", "t", "a", "l", "i", "c">> \o TTF
File_arialOtf == <<"a", "r", "i", "a", "l">> \o OTF
File_ArialRegular ==
  Str_Arial \o <<"-", "R", "e", "g", "u", "l", "a", "r">> \o <<".", "T", "T", "F">>
File_OpenSans == <<"O", "p", "e", "n", "S", "a", "n", "s">> \o OTF
File_ArialTxt == Str_Arial \o <<".", "t", "x", "t">>
File_Eacute == <<"É">> \o <<".", "T", "T", "F">>

FontFiles ==
  {File_Arial, File_ArialBold, File_ArialNarrowItalic, File_arialOtf,
   File_ArialRegular, File_OpenSans, File_ArialTxt, File_Eacute}

Name_OpenSans == <<"O", "p", "e", "n", " ", "S", "a", "n", "s">>
Name_NoSuchFont ==
  <<"N", "o", "S", "u", "c", "h", "F", "o", "n", "t", "1", "2", "3">>
Name_Blank == <<" ">>
Name_arial == <<"a", "r", "i", "a", "l">>
Name_OpenCrSans == <<"O", "p", "e", "n", "\r", "S", "a", "n", "s">>
Name_Eacute == <<"é">>
Name_NoBreakSpace == <<" ">>

FontNames ==
  {Str_Arial, Name_arial, Name_OpenSans, Name_NoSuchFont, Name_Blank,
   Name_OpenCrSans, Name_Eacute, Name_NoBreakSpace}

\* the longest enumeration of font files tried
MaxListing == 3

\* the enumerations: every order of every set of at most MaxListing files
Listings ==
  UNION {{l \in [1..n -> FontFiles] : \A i, j \in 1..n : i # j => l[i] # l[j]} :
           n \in 0..MaxListing}

Hosts ==
  {[platform |-> "linux", windir |-> FALSE],
   [platform |-> "darwin", windir |-> FALSE],
   [platform |-> "win32", windir |-> TRUE],
   [platform |-> "win32", windir |-> FALSE]}

NoFontCall == [font_name |-> <<>>, listing |-> <<>>,
               platform |-> "linux", windir |-> FALSE]
NoFontResult == [err |-> NoError, path |-> 0]

IdleFont ==
  /\ font_in = NoFontCall
  /\ font_out = NoFontResult
  /\ font_pc = "idle"

\* every listing on Linux; the other hosts with at most one font file
InitFont ==
  /\ font_in \in {c \in {[font_name |-> n, listing |-> l,
                           platform |-> h.platform, windir |-> h.windir] :
                            n \in FontNames, l \in Listings, h \in Hosts} :
                     c.platform # "linux" => Len(c.listing) <= 1}
  /\ font_out = NoFontResult
  /\ font_pc = "call"

\* one call of _find_system_font
FindSystemFont ==
  /\ font_pc = "call"
  /\ font_out' = find_system_font(font_in.font_name, font_in.listing,
                                  font_in.platform, font_in.windir)
  /\ font_pc' = IF font_out'.err = NoError THEN "returned" ELSE "raised"
  /\ UNCHANGED <<font_in, fitVars, pipeVars>>

\* ---- _add_text, the search loop pass by pass ----
NoText == [present |-> FALSE, wPer |-> 0, hNum |-> 0, hDen |-> 1, top |-> 0,
           tall |-> {}, tallBy |-> 0]
NoLogo == [present |-> FALSE, w |-> 1, h |-> 1, readable |-> TRUE]
NoLayout == [overlay_height |-> 0, margin |-> 0, max_text_height |-> 0,
             text_right_x |-> 0, text_left_min_x |-> 0]
NoSearch == [min_size |-> 0, max_size |-> 0, current_font_size |-> 0,
             current_bbox |-> NoBBox]
NoRect == [x0 |-> 0, y0 |-> 0, x1 |-> 0, y1 |-> 0]
NoEnv == [listing |-> <<>>, platform |-> "linux", windir |-> FALSE,
          font_loads |-> TRUE, writable |-> TRUE, other_writes |-> 0]
NoFitCall == [canvas_h |-> 0, logo |-> NoLogo, text |-> NoText,
              font_name |-> <<>>, env |-> NoEnv]
NoFitResult == [err |-> NoError, size |-> 0, rect |-> NoRect]

IdleFit ==
  /\ fit_in = NoFitCall
  /\ fit_layout = NoLayout
  /\ fit = NoSearch
  /\ fit_probes = 0
  /\ fit_out = NoFitResult
  /\ fit_pc = "idle"

\* the largest size at which a text may render irregularly
MaxTall == 4

\* texts: narrow and flat, as tall as the size, wide, and very wide
TextShapes ==
  {[wPer |-> 1, hNum |-> 1, hDen |-> 2, top |-> 0],
   [wPer |-> 4, hNum |-> 1, hDen |-> 1, top |-> 3],
   [wPer |-> 20, hNum |-> 1, hDen |-> 1, top |-> 1],
   [wPer |-> 1100, hNum |-> 1, hDen |-> 2, top |-> 0]}

Texts ==
  {[present |-> TRUE, wPer |-> s.wPer, hNum |-> s.hNum, hDen |-> s.hDen,
    top |-> s.top, tall |-> t, tallBy |-> TARGET_HEIGHT] :
     s \in TextShapes, t \in SUBSET (1..MaxTall)}

Logos ==
  {NoLogo,
   [present |-> TRUE, w |-> 200, h |-> 100, readable |-> TRUE],
   [present |-> TRUE, w |-> 3000, h |-> 200, readable |-> TRUE]}

FitHeights == {10, 20, 40, 60, 95, TARGET_HEIGHT}

\* a host with Arial installed, and one whose Arial file does not load
FitEnvs ==
  {[listing |-> <<File_ArialBold, File_Arial>>, platform |-> "linux",
    windir |-> FALSE, font_loads |-> fl, writable |-> TRUE,
    other_writes |-> 0] : fl \in BOOLEAN}

\* lines 293-296: the family asked for, "Arial" when none is
font_to_find(font_name) == IF font_name # <<>> THEN font_name ELSE Str_Arial

resolve_font(font_name, e) ==
  find_system_font(font_to_find(font_name), e.listing, e.platform, e.windir)

\* line 336
font_load_error == Raise("FontError", <<"Failed to load font">>)

\* line 354
no_fit_error ==
  Raise("RuntimeError", <<"Could not find suitable font size for text">>)

InitFit ==
  /\ fit_in \in {[canvas_h |-> h, logo |-> l, text |-> t,
                  font_name |-> n, env |-> e] :
                   h \in FitHeights, l \in Logos, t \in Texts,
                   n \in {<<>>, Name_NoSuchFont}, e \in FitEnvs}
  /\ fit_layout = NoLayout
  /\ fit = NoSearch
  /\ fit_probes = 0
  /\ fit_out = NoFitResult
  /\ fit_pc = "start"

\* the except clause of _add_text, lines 297-298
add_text_except(e) ==
  IF e.kind = "FontError" THEN Raise("FontError", <<"Font error">> \o e.msg)
  ELSE e

FitResolved(fr) ==
  IF fr.err # NoError
  THEN /\ fit_out' = [fit_out EXCEPT !.err = add_text_except(fr.err)]
       /\ fit_pc' = "raised"
       /\ UNCHANGED <<fit_layout, fit>>
  ELSE /\ fit_layout' = text_layout(fit_in.canvas_h,
             IF fit_in.logo.present
             THEN logo_right_x_of(overlay_height(fit_in.canvas_h), fit_in.logo)
             ELSE Unset)
       /\ fit' = search_init(fit_layout')
       /\ fit_pc' = "loop"
       /\ UNCHANGED fit_out

\* lines 292-329: resolve the font, lay the text out, set the search up
FitStart ==
  /\ fit_pc = "start"
  /\ FitResolved(resolve_font(fit_in.font_name, fit_in.env))
  /\ UNCHANGED <<fit_in, fit_probes, fontVars, pipeVars>>

\* lines 331-351: one pass of the while loop
FitProbe ==
  /\ fit_pc = "loop"
  /\ search_running(fit)
  /\ IF ~fit_in.env.font_loads
     THEN /\ fit_out' = [fit_out EXCEPT !.err = font_load_error]
          /\ fit_pc' = "raised"
          /\ UNCHANGED fit
     ELSE /\ fit' = search_step(fit, fit_in.text, fit_layout)
          /\ UNCHANGED <<fit_out, fit_pc>>
  /\ fit_probes' = fit_probes + 1
  /\ UNCHANGED <<fit_in, fit_layout, fontVars, pipeVars>>

\* lines 353-385: after the loop, raise or draw
FitFinish ==
  /\ fit_pc = "loop"
  /\ ~search_running(fit)
  /\ IF fit.current_font_size = 0
     THEN /\ fit_out' = [fit_out EXCEPT !.err = no_fit_error]
          /\ fit_pc' = "raised"
     ELSE /\ fit_out' = [fit_out EXCEPT
                !.size = fit.current_font_size,
                !.rect = text_rect(fit.current_font_size, fit_in.text, fit_layout)]
          /\ fit_pc' = "drawn"
  /\ UNCHANGED <<fit_in, fit_layout, fit, fit_probes, fontVars, pipeVars>>

(***************************************************************************)
(* process() and its callers.  A canvas is its size, its mode, whether the *)
(* lazily opened file has been decoded, and the layers put on the input's  *)
(* pixels: each an operation, its alpha and the rectangle it touched.      *)
(***************************************************************************)
NoCanvas == [w |-> 0, h |-> 0, mode |-> "none", loaded |-> FALSE, layers |-> <<>>]
NoBox == [left |-> 0, top |-> 0, right |-> 0, bottom |-> 0]
NoSize == [w |-> 0, h |-> 0]
NoGeom ==
  [resized |-> NoSize, box |-> NoBox,
   bar_height |-> Unset, bar_alpha |-> Unset,
   logo_overlay_height |-> Unset, logo_margin |-> Unset, logo_size |-> NoSize,
   text_layout |-> NoLayout, text_size |-> 0, text_rect |-> NoRect]
NoPath == <<0, 0>>
Pending == [status |-> "pending", err |-> NoError, failed_at |-> "", cause |-> "",
            saved |-> NoPath]

Layer(op, a, x0, y0, x1, y1) ==
  [op |-> op, a |-> a, x0 |-> x0, y0 |-> y0, x1 |-> x1, y1 |-> y1]

PipelineOrder ==
  <<"ColorNormalize", "Crop", "Blur", "OverlayBar", "LogoComposite",
    "TextDraw", "Save">>

\* the handlers of process(), lines 176-177, 182-183, 186-187, and of
\* __init__, lines 21-22
logo_except(e) == Raise("RuntimeError", <<"Failed to process logo">> \o e.msg)
text_except(e) == IF e.kind = "FontError" THEN Raise("FontError", e.msg) ELSE e
process_except(e) ==
  Raise("RuntimeError", <<"Image processing failed">> \o e.msg)
init_except(e) == Raise("RuntimeError", <<"Failed to open image">> \o e.msg)

\* what the imaging library raises
open_error == Raise("OSError", <<"cannot identify image file">>)
decode_error == Raise("OSError", <<"image file is truncated">>)
resize_error == Raise("ValueError", <<"height and width must be > 0">>)
save_error == Raise("OSError", <<"cannot write file">>)

\* the first step that touches the pixels decodes the file
Decodes(image, c) == c.loaded \/ image.defect # "truncated"

\* _resize_and_crop
cropped(c, box) ==
  [c EXCEPT !.w = box.right - box.left, !.h = box.bottom - box.top,
            !.loaded = TRUE,
            !.layers = Append(@, Layer("resample", MaxAlpha, 0, 0,
                          box.right - box.left, box.bottom - box.top))]

resize_and_crop(c) == cropped(c, crop_box(new_size(c.w, c.h)))

\* _apply_blur
apply_blur(c, blur_amount) ==
  [c EXCEPT !.mode = "RGBA", !.loaded = TRUE,
            !.layers = Append(@, Layer("blur", blur_opacity(blur_amount),
                                       0, 0, c.w, c.h))]

\* a bar one row taller than the overlay height
add_overlay_bar_taller(c, transparency) ==
  [c EXCEPT !.mode = "RGBA", !.loaded = TRUE,
            !.layers = Append(@, Layer("white", overlay_alpha(transparency),
                                       0, 0, c.w, overlay_height(c.h) + 1))]

\* _add_overlay_bar
add_overlay_bar(c, transparency) ==
  [c EXCEPT !.mode = "RGBA", !.loaded = TRUE,
            !.layers = Append(@, Layer("white", overlay_alpha(transparency),
                                       0, 0, c.w, overlay_height(c.h)))]

\* _add_logo: the error it raises
logo_error(logo, size) ==
  IF ~logo.readable THEN open_error
  ELSE IF size.w < 1 \/ size.h < 1 THEN resize_error
  ELSE NoError

add_logo_error(c, logo) == logo_error(logo, logo_size(overlay_height(c.h), logo))

\* _add_logo: the canvas it leaves; the logo's own alpha is not known
logo_pasted(c, margin, size) ==
  [c EXCEPT !.layers = Append(@, Layer("logo", Unset,
              logo_x_at(margin), margin,
              logo_x_at(margin) + size.w, margin + size.h))]

logo_on_bar(c, oh, logo) == logo_pasted(c, margin_of(oh), logo_size(oh, logo))

add_logo(c, logo) == logo_on_bar(c, overlay_height(c.h), logo)

\* _add_text: [err, size, rect, layout]
text_result(err, size, rect, layout) ==
  [err |-> err, size |-> size, rect |-> rect, layout |-> layout]

\* lines 353-385
text_drawn(st, text, layout) ==
  IF st.current_font_size = 0 THEN text_result(no_fit_error, 0, NoRect, layout)
  ELSE text_result(NoError, st.current_font_size,
                   text_rect(st.current_font_size, text, layout), layout)

\* lines 326-351
text_fitted(st0, text, layout, e) ==
  IF search_running(st0) /\ ~e.font_loads
  THEN text_result(font_load_error, 0, NoRect, layout)
  ELSE text_drawn(search_loop(st0, text, layout), text, layout)

text_laid_out(fr, layout, text, e) ==
  IF fr.err # NoError
  THEN text_result(add_text_except(fr.err), 0, NoRect, layout)
  ELSE text_fitted(search_init(layout), text, layout, e)

add_text(canvas_h, lrx, text, font_name, e) ==
  text_laid_out(resolve_font(font_name, e), text_layout(canvas_h, lrx), text, e)

\* image.save: a JPEG cannot hold the alpha channel the overlay bar adds
save_fails(c, image, e) ==
  ~e.writable \/ (image.suffix = "jpg" /\ c.mode = "RGBA")

\* output files left by an earlier run
InitialFiles == {<<1, 0>>, <<1, 1>>}

\* how often another process touches the output files during a run
MaxOtherWrites == 1

\* a loop that passes over the image after the one done with
next_image_skipping(i) == i + 2

\* main's loop after an image is done with, processed or not: the next one
next_image(i) == i + 1

\* Image.paste(overlay, (0, 0), overlay) and the other steps, seen from one
\* pixel: "input" while it has the value it was opened with, "white" once an
\* opaque white layer covers it, "changed" otherwise
paste(pixel, layer, x, y) ==
  IF ~(layer.x0 <= x /\ x < layer.x1 /\ layer.y0 <= y /\ y < layer.y1)
  THEN pixel
  ELSE IF layer.op = "white"
  THEN (IF layer.a = MaxAlpha THEN "white"
        ELSE IF layer.a = 0 THEN pixel
        ELSE "changed")
  ELSE "changed"

RECURSIVE PixelFrom(_, _, _, _)
PixelFrom(layers, n, x, y) ==
  IF n = 0 THEN "input"
  ELSE paste(PixelFrom(layers, n - 1, x, y), layers[n], x, y)

PixelAt(c, x, y) == PixelFrom(c.layers, Len(c.layers), x, y)

\* ---- the callers ----
\* cli.py lines 56-59
MainStart ==
  /\ pc = "start" /\ caller = "main"
  /\ pc' = IF 0 <= opts.transparency /\ opts.transparency <= 100
           THEN "loop" ELSE "usage_error"
  /\ UNCHANGED <<caller, images, opts, env, fs, idx, out_path, canvas,
                 logo_right_x, geom, ran, outcome, fontVars, fitVars>>

\* process_image called directly, with an output path of the caller's
ApiCall ==
  /\ pc = "start" /\ caller = "api"
  /\ pc' = "open"
  /\ out_path' = <<idx, 0>>
  /\ UNCHANGED <<caller, images, opts, env, fs, idx, canvas,
                 logo_right_x, geom, ran, outcome, fontVars, fitVars>>

\* an exception leaves the loop body: main's except (cli.py lines 81-82)
\* reports it and the loop goes on; another caller of process_image gets it
Fails(step, cause, e) ==
  /\ outcome' = [outcome EXCEPT ![idx] =
        [status |-> "error", err |-> e, failed_at |-> step, cause |-> cause,
         saved |-> NoPath]]
  /\ pc' = IF caller = "main" THEN "loop" ELSE "raised"
  /\ idx' = IF caller = "main" THEN next_image(idx) ELSE idx

\* cli.py lines 61-66 and 21: the output path of the next image, and
\* handle_existing_file's look whether it exists
LoopNext ==
  /\ pc = "loop" /\ idx <= Len(images)
  /\ out_path' = <<idx, 0>>
  /\ pc' = IF <<idx, 0>> \in fs THEN "prompt" ELSE "open"
  /\ UNCHANGED <<caller, images, opts, env, fs, idx, canvas, logo_right_x, geom,
                 ran, outcome, fontVars, fitVars>>

\* click.prompt raises Abort, a RuntimeError, when the input ends or the user
\* interrupts
prompt_abort == Raise("Abort", <<>>)

\* cli.py lines 22-38: the user's answer to the prompt, 1 (cancel),
\* 2 (overwrite) or 3 (new name), or no answer
Prompt ==
  /\ pc = "prompt"
  /\ \E choice \in {"1", "2", "3", "abort"} :
       IF choice = "abort"
       THEN /\ Fails("Prompt", "abort", prompt_abort)
            /\ UNCHANGED out_path
       ELSE IF choice = "1"
       THEN /\ outcome' = [outcome EXCEPT ![idx].status = "skipped"]
            /\ idx' = next_image(idx)
            /\ pc' = "loop"
            /\ UNCHANGED out_path
       ELSE /\ pc' = IF choice = "2" THEN "open" ELSE "unique"
            /\ UNCHANGED <<out_path, outcome, idx>>
  /\ UNCHANGED <<caller, images, opts, env, fs, canvas, logo_right_x, geom,
                 ran, fontVars, fitVars>>

\* get_unique_output_path, cli.py lines 9-17, one exists() at a time: the
\* base path first, then counter 1, 2, ...
UniqueCheck ==
  /\ pc = "unique"
  /\ IF out_path \notin fs
     THEN /\ pc' = "open"
          /\ UNCHANGED out_path
     ELSE /\ out_path' = <<out_path[1], out_path[2] + 1>>
          /\ UNCHANGED pc
  /\ UNCHANGED <<caller, images, opts, env, fs, idx, canvas, logo_right_x, geom,
                 ran, outcome, fontVars, fitVars>>

\* the files of the image in hand another process may create or remove
OtherFiles == {<<idx, c>> : c \in 0..Cardinality(InitialFiles)}

\* while the prompt waits and between two exists(), another process
\* creates or removes an output file
OtherProcess ==
  /\ pc \in {"prompt", "unique"}
  /\ env.other_writes < MaxOtherWrites
  /\ \E f \in OtherFiles :
       fs' = IF f \in fs THEN fs \ {f} ELSE fs \cup {f}
  /\ env' = [env EXCEPT !.other_writes = @ + 1]
  /\ UNCHANGED <<caller, images, opts, pc, idx, out_path, canvas, logo_right_x,
                 geom, ran, outcome, fontVars, fitVars>>

LoopExit ==
  /\ pc = "loop" /\ idx > Len(images)
  /\ pc' = "exit"
  /\ UNCHANGED <<caller, images, opts, env, fs, idx, out_path, canvas,
                 logo_right_x, geom, ran, outcome, fontVars, fitVars>>

Runs(step) == ran' = [ran EXCEPT ![idx] = Append(@, step)]

\* ---- ImageProcessor.__init__ ----
Open ==
  /\ pc = "open"
  /\ IF images[idx].defect = "unreadable"
     THEN /\ Fails("Open", "open", init_except(open_error))
          /\ UNCHANGED canvas
     ELSE /\ canvas' = [canvas EXCEPT ![idx] =
                [w |-> images[idx].w, h |-> images[idx].h,
                 mode |-> images[idx].mode, loaded |-> FALSE, layers |-> <<>>]]
          /\ pc' = "convert"
          /\ UNCHANGED <<outcome, idx>>
  /\ UNCHANGED <<caller, images, opts, env, fs, out_path, logo_right_x, geom,
                 ran, fontVars, fitVars>>

\* ---- process(), statement by statement ----
\* lines 162-163
ColorNormalize ==
  /\ pc = "convert"
  /\ IF canvas[idx].mode = "RGB"
     THEN /\ pc' = "crop"
          /\ UNCHANGED <<canvas, ran, outcome, idx>>
     ELSE /\ Runs("ColorNormalize")
          /\ IF ~Decodes(images[idx], canvas[idx])
             THEN /\ Fails("ColorNormalize", "decode", process_except(decode_error))
                  /\ UNCHANGED canvas
             ELSE /\ canvas' = [canvas EXCEPT ![idx] =
                        [@ EXCEPT !.mode = "RGB", !.loaded = TRUE,
                                  !.layers = Append(@, Layer("convert", MaxAlpha,
                                               0, 0, canvas[idx].w, canvas[idx].h))]]
                  /\ pc' = "crop"
                  /\ UNCHANGED <<outcome, idx>>
  /\ UNCHANGED <<caller, images, opts, env, fs, out_path, logo_right_x, geom,
                 fontVars, fitVars>>

Cropped(size) ==
  /\ canvas' = [canvas EXCEPT ![idx] = cropped(@, crop_box(size))]
  /\ geom' = [geom EXCEPT ![idx].resized = size, ![idx].box = crop_box(size)]

\* lines 165-166
Crop ==
  /\ pc = "crop"
  /\ IF ~opts.crop_to_hd
     THEN /\ pc' = "blur"
          /\ UNCHANGED <<canvas, geom, ran, outcome, idx>>
     ELSE /\ Runs("Crop")
          /\ IF ~Decodes(images[idx], canvas[idx])
             THEN /\ Fails("Crop", "decode", process_except(decode_error))
                  /\ UNCHANGED <<canvas, geom>>
             ELSE /\ Cropped(new_size(canvas[idx].w, canvas[idx].h))
                  /\ pc' = "blur"
                  /\ UNCHANGED <<outcome, idx>>
  /\ UNCHANGED <<caller, images, opts, env, fs, out_path, logo_right_x,
                 fontVars, fitVars>>

\* lines 168-169
Blur ==
  /\ pc = "blur"
  /\ IF ~(opts.blur > 0)
     THEN /\ pc' = "overlay"
          /\ UNCHANGED <<canvas, ran, outcome, idx>>
     ELSE /\ Runs("Blur")
          /\ IF ~Decodes(images[idx], canvas[idx])
             THEN /\ Fails("Blur", "decode", process_except(decode_error))
                  /\ UNCHANGED canvas
             ELSE /\ canvas' = [canvas EXCEPT ![idx] = apply_blur(@, opts.blur)]
                  /\ pc' = "overlay"
                  /\ UNCHANGED <<outcome, idx>>
  /\ UNCHANGED <<caller, images, opts, env, fs, out_path, logo_right_x, geom,
                 fontVars, fitVars>>

Barred(c) ==
  /\ canvas' = [canvas EXCEPT ![idx] = c]
  /\ geom' = [geom EXCEPT
        ![idx].bar_height = c.layers[Len(c.layers)].y1,
        ![idx].bar_alpha = c.layers[Len(c.layers)].a]

\* line 171
OverlayBar ==
  /\ pc = "overlay"
  /\ Runs("OverlayBar")
  /\ IF ~Decodes(images[idx], canvas[idx])
     THEN /\ Fails("OverlayBar", "decode", process_except(decode_error))
          /\ UNCHANGED <<canvas, geom>>
     ELSE /\ Barred(add_overlay_bar(canvas[idx], opts.transparency))
          /\ pc' = "logo"
          /\ UNCHANGED <<outcome, idx>>
  /\ UNCHANGED <<caller, images, opts, env, fs, out_path, logo_right_x,
                 fontVars, fitVars>>

LogoPlaced(oh, margin, size, err) ==
  IF err # NoError
  THEN /\ Fails("LogoComposite", "logo", process_except(logo_except(err)))
       /\ UNCHANGED <<canvas, logo_right_x, geom>>
  ELSE /\ canvas' = [canvas EXCEPT ![idx] = logo_pasted(@, margin, size)]
       /\ logo_right_x' = [logo_right_x EXCEPT ![idx] = logo_right_x_at(margin, size)]
       /\ geom' = [geom EXCEPT ![idx].logo_overlay_height = oh,
                               ![idx].logo_margin = margin,
                               ![idx].logo_size = size]
       /\ pc' = "text"
       /\ UNCHANGED <<outcome, idx>>

LogoSized(oh, margin, size) ==
  LogoPlaced(oh, margin, size, logo_error(opts.logo, size))

\* lines 256-289
LogoOnBar(oh) == LogoSized(oh, margin_of(oh), logo_size(oh, opts.logo))

\* lines 173-177
LogoComposite ==
  /\ pc = "logo"
  /\ IF ~opts.logo.present
     THEN /\ pc' = "text"
          /\ UNCHANGED <<canvas, logo_right_x, geom, ran, outcome, idx>>
     ELSE /\ Runs("LogoComposite")
          /\ LogoOnBar(overlay_height(canvas[idx].h))
  /\ UNCHANGED <<caller, images, opts, env, fs, out_path, fontVars, fitVars>>

\* what went wrong in _add_text, by the error it raised
text_cause(e) ==
  IF e = no_fit_error THEN "no_fitting_size"
  ELSE IF e = font_load_error THEN "font_load"
  ELSE IF e.kind = "FontError" THEN "font_not_found"
  ELSE "font_resolver"

TextAdded(r) ==
  IF r.err # NoError
  THEN /\ Fails("TextDraw", text_cause(r.err), process_except(text_except(r.err)))
       /\ UNCHANGED <<canvas, geom>>
  ELSE /\ canvas' = [canvas EXCEPT ![idx].layers =
              Append(@, Layer("text", MaxAlpha, r.rect.x0, r.rect.y0,
                              r.rect.x1, r.rect.y1))]
       /\ geom' = [geom EXCEPT ![idx].text_layout = r.layout,
                               ![idx].text_size = r.size,
                               ![idx].text_rect = r.rect]
       /\ pc' = "save"
       /\ UNCHANGED <<outcome, idx>>

\* lines 179-183
TextDraw ==
  /\ pc = "text"
  /\ IF ~opts.text.present
     THEN /\ pc' = "save"
          /\ UNCHANGED <<canvas, geom, ran, outcome, idx>>
     ELSE /\ Runs("TextDraw")
          /\ TextAdded(add_text(canvas[idx].h, logo_right_x[idx], opts.text,
                                opts.font_name, env))
  /\ UNCHANGED <<caller, images, opts, env, fs, out_path, logo_right_x,
                 fontVars, fitVars>>

\* line 185, and cli.py line 80
Save ==
  /\ pc = "save"
  /\ Runs("Save")
  /\ IF save_fails(canvas[idx], images[idx], env)
     THEN /\ Fails("Save", "save", process_except(save_error))
          /\ UNCHANGED fs
     ELSE /\ fs' = fs \cup {out_path}
          /\ outcome' = [outcome EXCEPT ![idx].status = "processed",
                                        ![idx].saved = out_path]
          /\ pc' = IF caller = "main" THEN "loop" ELSE "returned"
          /\ idx' = IF caller = "main" THEN next_image(idx) ELSE idx
  /\ UNCHANGED <<caller, images, opts, env, out_path, canvas, logo_right_x,
                 geom, fontVars, fitVars>>

NextPipe ==
  \/ MainStart \/ ApiCall \/ LoopNext \/ Prompt \/ UniqueCheck \/ OtherProcess
  \/ LoopExit \/ Open
  \/ ColorNormalize \/ Crop \/ Blur \/ OverlayBar \/ LogoComposite
  \/ TextDraw \/ Save

\* ---- the runs ----
Image(w, h, mode, suffix, defect) ==
  [w |-> w, h |-> h, mode |-> mode, suffix |-> suffix, defect |-> defect]

Options(crop, t, blur, logo, text, font_name) ==
  [crop_to_hd |-> crop, transparency |-> t, blur |-> blur,
   blur_radius |-> DEFAULT_BLUR_RADIUS, logo |-> logo, text |-> text,
   font_name |-> font_name]

\* cli.py line 45
DEFAULT_TRANSPARENCY == 20
\* cli.py line 57
MAX_TRANSPARENCY == 100

GoodLogo == [present |-> TRUE, w |-> 200, h |-> 100, readable |-> TRUE]
BadLogo == [present |-> TRUE, w |-> 200, h |-> 100, readable |-> FALSE]
ShortText == [present |-> TRUE, wPer |-> 4, hNum |-> 1, hDen |-> 1, top |-> 3,
              tall |-> {}, tallBy |-> 0]
LongText == [present |-> TRUE, wPer |-> 1100, hNum |-> 1, hDen |-> 2, top |-> 0,
             tall |-> {}, tallBy |-> 0]

Host(font_loads, writable) ==
  [listing |-> <<File_ArialBold, File_Arial>>, platform |-> "linux",
   windir |-> FALSE, font_loads |-> font_loads, writable |-> writable,
   other_writes |-> 0]

PipeStart(c, imgs, o, e, files) ==
  /\ caller = c
  /\ images = imgs
  /\ opts = o
  /\ env = e
  /\ fs = files
  /\ pc = "start"
  /\ idx = 1
  /\ out_path = NoPath
  /\ canvas = [i \in 1..Len(imgs) |-> NoCanvas]
  /\ logo_right_x = [i \in 1..Len(imgs) |-> Unset]
  /\ geom = [i \in 1..Len(imgs) |-> NoGeom]
  /\ ran = [i \in 1..Len(imgs) |-> <<>>]
  /\ outcome = [i \in 1..Len(imgs) |-> Pending]

IdlePipe ==
  /\ PipeStart("none", <<>>, Options(TRUE, DEFAULT_TRANSPARENCY, 0, NoLogo, NoText, <<>>),
               NoEnv, {})

\* the batches of main: input files, good and bad
BatchImages ==
  {Image(64, 48, "RGB", "png", "none"),
   Image(3000, 2000, "RGB", "png", "none"),
   Image(176, 99, "L", "jpg", "none"),
   Image(800, 600, "RGB", "png", "unreadable"),
   Image(800, 600, "P", "png", "truncated")}

\* the most images in a batch
MaxBatch == 2

Batches ==
  UNION {{b \in [1..n -> BatchImages] : \A i, j \in 1..n : i # j => b[i] # b[j]} :
           n \in 1..MaxBatch}

\* text and font together: no text; a text that fits, in the default font; a
\* text too wide; a family that is not installed; a family name of one blank
TextChoices ==
  {<<NoText, <<>>>>, <<ShortText, <<>>>>, <<LongText, Str_Arial>>,
   <<ShortText, Name_NoSuchFont>>, <<ShortText, Name_Blank>>}

BatchHosts == {Host(TRUE, TRUE), Host(FALSE, TRUE), Host(TRUE, FALSE)}

\* main passes no blur: process_image's default of 0 stands
InitBatch ==
  \E b \in Batches, crop \in BOOLEAN, l \in {NoLogo, GoodLogo, BadLogo},
     tc \in TextChoices, e \in BatchHosts,
     t \in {DEFAULT_TRANSPARENCY, MAX_TRANSPARENCY + 1},
     files \in {{}, InitialFiles} :
       /\ t > MAX_TRANSPARENCY => (Len(b) = 1 /\ ~crop /\ l = NoLogo /\ files = {})
       /\ e # Host(TRUE, TRUE) => (~crop /\ l = NoLogo)
       /\ files # {} => (~crop /\ l = NoLogo /\ e = Host(TRUE, TRUE)
                           /\ tc[2] = <<>>)
       /\ PipeStart("main", b, Options(crop, t, 0, l, tc[1], tc[2]), e, files)

\* process_image called with a blur
BlurSample == 50

InitApi ==
  \E im \in BatchImages, crop \in BOOLEAN, blur \in {0, BlurSample},
     l \in {NoLogo, GoodLogo}, tc \in TextChoices :
       PipeStart("api", <<im>>,
                 Options(crop, DEFAULT_TRANSPARENCY, blur, l, tc[1], tc[2]),
                 Host(TRUE, TRUE), {})

\* ---- runs of one image over many sizes and transparencies ----
\* the tallest uncropped canvas and the largest side of a cropped input tried
MaxCanvasHeight == 24
MaxCropDim == 12

SampleSizes ==
  {<<3000, 2000>>, <<TARGET_WIDTH, TARGET_HEIGHT>>, <<1280, 720>>, <<176, 99>>,
   <<640, 480>>, <<4280, 535>>, <<1000, 3000>>}

Plain(crop, t) == Options(crop, t, 0, NoLogo, NoText, <<>>)

\* uncropped canvases of every height
InitHeights ==
  \E w \in {1, 2},
     h \in (1..MaxCanvasHeight) \cup {720, TARGET_HEIGHT},
     m \in {"RGB", "L"}, t \in {0, DEFAULT_TRANSPARENCY, MAX_TRANSPARENCY} :
       PipeStart("main", <<Image(w, h, m, "png", "none")>>, Plain(FALSE, t),
                 Host(TRUE, TRUE), {})

\* every transparency main accepts
InitTransparencies ==
  \E t \in 0..MAX_TRANSPARENCY, h \in {20, TARGET_HEIGHT},
     files \in {{}, InitialFiles} :
       /\ files # {} => (t = DEFAULT_TRANSPARENCY /\ h = 20)
       /\ PipeStart("main", <<Image(2, h, "RGB", "png", "none")>>, Plain(FALSE, t),
                    Host(TRUE, TRUE), files)

\* cropped inputs of every small size, and some usual ones
InitSizes ==
  \E sz \in ((1..MaxCropDim) \X (1..MaxCropDim)) \cup SampleSizes :
       PipeStart("main", <<Image(sz[1], sz[2], "RGB", "png", "none")>>,
                 Plain(TRUE, DEFAULT_TRANSPARENCY), Host(TRUE, TRUE), {})

\* the optional steps on and off, on an opaque bar
InitSteps ==
  \E sz \in {<<2, 20>>, <<64, 48>>, <<30, 95>>},
     crop \in BOOLEAN, blur \in {0, BlurSample}, l \in {NoLogo, GoodLogo},
     tx \in {NoText, ShortText}, m \in {"RGB", "RGBA"} :
       PipeStart("api", <<Image(sz[1], sz[2], m, "png", "none")>>,
                 Options(crop, 0, blur, l, tx, <<>>), Host(TRUE, TRUE), {})

Init == IdleFont /\ IdleFit /\ (InitBatch \/ InitApi)
Spec == Init /\ [][NextPipe]_vars

InitGeom ==
  /\ IdleFont
  /\ IdleFit
  /\ (InitHeights \/ InitTransparencies \/ InitSizes \/ InitSteps)
SpecGeom == InitGeom /\ [][NextPipe]_vars

NextFont == FindSystemFont
InitFontOnly == InitFont /\ IdleFit /\ IdlePipe
SpecFont == InitFontOnly /\ [][NextFont]_vars

NextFit == FitStart \/ FitProbe \/ FitFinish
InitFitOnly == InitFit /\ IdleFont /\ IdlePipe
SpecFit == InitFitOnly /\ [][NextFit]_vars

(***************************************************************************)
(* The claims.                                                             *)
(***************************************************************************)
Images == 1..Len(images)

\* image i got through step `step`
Did(i, step) ==
  /\ \E k \in 1..Len(ran[i]) : ran[i][k] = step
  /\ ~(outcome[i].status = "error" /\ outcome[i].failed_at = step)

Dist(a, b) == IF a >= b THEN a - b ELSE b - a

\* n is an integer nearest to num / den, whichever way a tie goes
Nearest(n, num, den) == 2 * Dist(n * den, num) <= den

\* ---- C1 ----
\* C1: whatever the size of the input, once _resize_and_crop has run with
\* crop_to_hd the canvas is exactly 1920x1080, the scaled image is at least
\* 1920 wide and 1080 tall, and the centered crop rectangle lies inside the
\* scaled image.
C1_CropCovers ==
  \A i \in Images :
    Did(i, "Crop") =>
      /\ canvas[i].w = TARGET_WIDTH /\ canvas[i].h = TARGET_HEIGHT
      /\ geom[i].resized.w >= TARGET_WIDTH
      /\ geom[i].resized.h >= TARGET_HEIGHT
      /\ 0 <= geom[i].box.left /\ geom[i].box.right <= geom[i].resized.w
      /\ 0 <= geom[i].box.top /\ geom[i].box.bottom <= geom[i].resized.h

\* ---- C2 ----
\* C2: an error that reaches the caller of process_image because the font
\* was not found, or because no font size fits, has a kind other than the
\* kinds of the image-open and the image-save failures.
C2_DistinctKinds ==
  \A i \in Images :
    (outcome[i].status = "error"
       /\ outcome[i].cause \in {"font_not_found", "no_fitting_size"}) =>
      outcome[i].err.kind \notin
        {init_except(open_error).kind, process_except(save_error).kind}

\* ---- C3 ----
Position(step) == CHOOSE k \in 1..Len(PipelineOrder) : PipelineOrder[k] = step

\* C3: the steps of an image run in the order ColorNormalize, Crop, Blur,
\* OverlayBar, LogoComposite, TextDraw, Save; the step that failed is the
\* last one that ran, so Save never runs after a failed step and the image
\* gets no output file; and when main's loop ends every image of the batch
\* has been dealt with: processed and saved, failed, or skipped by the user.
C3_OrderAbortContinue ==
  \A i \in Images :
    /\ \A k \in 1..Len(ran[i]) :
         /\ \E q \in 1..Len(PipelineOrder) : PipelineOrder[q] = ran[i][k]
         /\ k > 1 => Position(ran[i][k - 1]) < Position(ran[i][k])
    /\ outcome[i].status = "error" =>
         /\ IF outcome[i].failed_at \in {"Prompt", "Open"} THEN ran[i] = <<>>
            ELSE ran[i] # <<>> /\ ran[i][Len(ran[i])] = outcome[i].failed_at
         /\ outcome[i].saved = NoPath
    /\ outcome[i].status = "processed" =>
         /\ ran[i] # <<>> /\ ran[i][Len(ran[i])] = "Save"
         /\ outcome[i].saved \in fs /\ outcome[i].saved[1] = i
    /\ outcome[i].status \in {"pending", "skipped"} =>
         outcome[i].saved = NoPath
    /\ (caller = "main" /\ pc = "exit") => outcome[i].status # "pending"
    /\ (caller = "main" /\ pc = "loop") =>
         (outcome[i].status # "pending" <=> i < idx)

\* a batch whose first image failed in mid-pipeline and whose second image
\* was processed
C3_Witness ==
  /\ caller = "main" /\ pc = "exit" /\ Len(images) = 2
  /\ outcome[1].status = "error" /\ outcome[1].failed_at = "ColorNormalize"
  /\ ran[1] = <<"ColorNormalize">>
  /\ outcome[2].status = "processed"

\* ---- C4 ----
SizeRange == 1..(2 * fit_layout.max_text_height)

FeasibleAt(size) == Feasible(textbbox(fit_in.text, size), fit_layout)

Monotonic == \A s \in SizeRange : (s > 1 /\ FeasibleAt(s)) => FeasibleAt(s - 1)

\* C4: when feasibility is monotonic in the font size, the search ends
\* within as many passes as the range has bits, draws at the largest
\* feasible size of 1..2*max_text_height, and raises the no-fitting-size
\* error exactly when no size of the range is feasible, that is when the
\* range is empty or size 1 is infeasible.
C4_LargestFeasible ==
  /\ fit_pc = "loop" => fit_probes <= IntBitLen(2 * fit_layout.max_text_height)
  /\ (fit_pc = "drawn" /\ Monotonic) =>
       /\ fit_out.size \in SizeRange
       /\ FeasibleAt(fit_out.size)
       /\ \A s \in SizeRange : s > fit_out.size => ~FeasibleAt(s)
  /\ (fit_pc = "raised" /\ fit_out.err = no_fit_error /\ Monotonic) =>
       /\ \A s \in SizeRange : ~FeasibleAt(s)
       /\ SizeRange # {} => ~FeasibleAt(1)
  /\ (fit_pc \in {"drawn", "raised"} /\ fit_out.err \in {NoError, no_fit_error}
        /\ Monotonic) =>
       (fit_out.err = no_fit_error <=> ~(\E s \in SizeRange : FeasibleAt(s)))

\* a text drawn on a 1080-line canvas at a size above which it no longer fits
C4_Witness ==
  /\ fit_pc = "drawn" /\ Monotonic
  /\ fit_in.canvas_h = TARGET_HEIGHT
  /\ fit_out.size > 1
  /\ fit_out.size + 1 \in SizeRange /\ ~FeasibleAt(fit_out.size + 1)

\* ---- C5 ----
\* C5: on a host whose font directories can be listed, whatever the family
\* name and the font files, _find_system_font returns the path of a
\* .ttf/.otf file whose name contains a variant of the family name, or fails
\* with FontError.
C5_PathOrFontError ==
  (font_pc \in {"returned", "raised"}
     /\ FontDirsError(font_in.platform, font_in.windir) = NoError) =>
    \/ /\ font_pc = "returned"
       /\ font_out.path \in 1..Len(font_in.listing)
       /\ IsFontFile(font_in.listing[font_out.path])
       /\ MatchesName(font_in.listing[font_out.path], font_in.font_name)
    \/ /\ font_pc = "raised"
       /\ font_out.err.kind = "FontError"

\* ---- C6 ----
Matched ==
  {j \in 1..Len(font_in.listing) :
     IsFontFile(font_in.listing[j])
       /\ MatchesName(font_in.listing[j], font_in.font_name)}

ScoreOf(j) == score_font(font_in.listing[j], font_in.font_name)

Exact(j) ==
  \/ Lower(font_in.listing[j]) = Lower(font_in.font_name) \o TTF
  \/ Lower(font_in.listing[j]) = Lower(font_in.font_name) \o OTF

Listed(file) == \E j \in 1..Len(font_in.listing) : font_in.listing[j] = file

\* C6: the file returned is a matched one of maximal score, the first
\* enumerated of those; a file named exactly <family>.ttf or <family>.otf,
\* whatever the case, scores 1000 and any other file less; and for "Arial",
\* Arial.ttf is taken before Arial-Bold.ttf and Arial-Bold.ttf before
\* Arial Narrow Italic.ttf, wherever they stand in the enumeration.
C6_BestFirst ==
  font_pc = "returned" =>
    /\ font_out.path \in Matched
    /\ \A j \in Matched :
         /\ ScoreOf(j) <= ScoreOf(font_out.path)
         /\ ScoreOf(j) = ScoreOf(font_out.path) => font_out.path <= j
         /\ IF Exact(j) THEN ScoreOf(j) = ExactMatchScore
            ELSE ScoreOf(j) < ExactMatchScore
    /\ (\E j \in Matched : Exact(j)) => Exact(font_out.path)
    /\ font_in.font_name = Str_Arial =>
         /\ Listed(File_Arial) => Exact(font_out.path)
         /\ Listed(File_ArialBold) =>
              font_in.listing[font_out.path] # File_ArialNarrowItalic

\* Arial.ttf enumerated last, after Arial Narrow Italic.ttf and
\* Arial-Bold.ttf, and returned
C6_Witness ==
  /\ font_pc = "returned"
  /\ font_in.font_name = Str_Arial
  /\ font_in.listing = <<File_ArialNarrowItalic, File_ArialBold, File_Arial>>
  /\ font_out.path = 3

\* ---- C7 ----
\* C7 as amended: for every canvas height, the overlay height used by
\* _add_overlay_bar, _add_logo and _add_text is 0.10 x canvas.height with its
\* fraction dropped (int(), not round()); it is 108 on a 1080-line canvas.
C7_OverlayHeightTruncated ==
  \A i \in Images :
    /\ Did(i, "OverlayBar") =>
         /\ geom[i].bar_height = canvas[i].h \div 10
         /\ canvas[i].h = TARGET_HEIGHT => geom[i].bar_height = 108
    /\ Did(i, "LogoComposite") =>
         geom[i].logo_overlay_height = canvas[i].h \div 10
    /\ Did(i, "TextDraw") =>
         geom[i].text_layout.overlay_height = canvas[i].h \div 10

\* C7 as stated: the overlay height is the integer nearest to
\* 0.10 x canvas.height in all three steps.
C7_OverlayHeightRounded ==
  \A i \in Images :
    /\ Did(i, "OverlayBar") =>
         /\ Nearest(geom[i].bar_height, canvas[i].h, 10)
         /\ canvas[i].h = TARGET_HEIGHT => geom[i].bar_height = 108
    /\ Did(i, "LogoComposite") =>
         Nearest(geom[i].logo_overlay_height, canvas[i].h, 10)
    /\ Did(i, "TextDraw") =>
         Nearest(geom[i].text_layout.overlay_height, canvas[i].h, 10)

\* a 95-line canvas: bar, logo and text all laid out on an overlay of 9
C7_Witness ==
  /\ canvas[1].h = 95
  /\ Did(1, "OverlayBar") /\ geom[1].bar_height = 9
  /\ Did(1, "LogoComposite") /\ geom[1].logo_overlay_height = 9
  /\ Did(1, "TextDraw") /\ geom[1].text_layout.overlay_height = 9

\* ---- C8 ----
LaidOut == fit_pc \in {"loop", "drawn"}

\* C8 as amended: the margin is overlay_height x 0.10 with its fraction
\* dropped; on a 1080-line canvas (overlay height 108) it is 10, so with no
\* logo the text drawn starts at x >= 420 + 10 = 430 and is at most 54 high.
C8_MarginTruncated ==
  /\ LaidOut =>
       /\ fit_layout.margin = fit_layout.overlay_height \div 10
       /\ fit_layout.text_right_x = viewport_end_x - fit_layout.margin
       /\ fit_layout.text_left_min_x =
            viewport_start_x + fit_layout.margin
              + (IF fit_in.logo.present
                 THEN logo_size(fit_layout.overlay_height, fit_in.logo).w
                        + fit_layout.margin
                 ELSE 0)
       /\ fit_in.canvas_h = TARGET_HEIGHT => fit_layout.margin = 10
  /\ (fit_pc = "drawn" /\ fit_in.canvas_h = TARGET_HEIGHT
        /\ ~fit_in.logo.present) =>
       /\ fit_out.rect.x0 >= 430
       /\ fit_out.rect.y1 - fit_out.rect.y0 <= 54

\* C8 as stated: the margin is the integer nearest to overlay_height x 0.10;
\* on a 1080-line canvas it is 11, so with no logo the text drawn starts at
\* x >= 431 and is at most 54 high.
C8_MarginRounded ==
  /\ LaidOut =>
       /\ Nearest(fit_layout.margin, fit_layout.overlay_height, 10)
       /\ fit_in.canvas_h = TARGET_HEIGHT => fit_layout.margin = 11
  /\ (fit_pc = "drawn" /\ fit_in.canvas_h = TARGET_HEIGHT
        /\ ~fit_in.logo.present) =>
       /\ fit_out.rect.x0 >= 431
       /\ fit_out.rect.y1 - fit_out.rect.y0 <= 54

\* a text drawn on a 1080-line canvas without logo, as far left as it may go
C8_Witness ==
  /\ fit_pc = "drawn" /\ fit_in.canvas_h = TARGET_HEIGHT
  /\ ~fit_in.logo.present
  /\ fit_layout.margin = 10
  /\ fit_out.rect.x0 = 430

\* ---- C9 ----
\* C9 as amended: for t in 0..100 the bar's alpha is 255 x (1 - t/100)
\* computed in floating point with its fraction dropped: the whole part of
\* 255 x (100 - t) / 100, except at t = 80 where the product falls just short
\* of 51 and alpha is 50; it is 255 at t = 0, 0 at t = 100, and no larger
\* than the alpha of any smaller t.
C9_AlphaTruncated ==
  \A i \in Images :
    Did(i, "OverlayBar") =>
      /\ opts.transparency \in 0..MAX_TRANSPARENCY
      /\ geom[i].bar_alpha =
           (IF opts.transparency = 80 THEN 50
            ELSE (MaxAlpha * (100 - opts.transparency)) \div 100)
      /\ opts.transparency = 0 => geom[i].bar_alpha = MaxAlpha
      /\ opts.transparency = MAX_TRANSPARENCY => geom[i].bar_alpha = 0
      /\ \A t \in 0..opts.transparency : overlay_alpha(t) >= geom[i].bar_alpha

\* C9 as stated: the bar's alpha is the integer nearest to
\* 255 x (1 - t/100); 255 at t = 0, 0 at t = 100, never increasing with t.
C9_AlphaRounded ==
  \A i \in Images :
    Did(i, "OverlayBar") =>
      /\ Nearest(geom[i].bar_alpha, MaxAlpha * (100 - opts.transparency), 100)
      /\ opts.transparency = 0 => geom[i].bar_alpha = MaxAlpha
      /\ opts.transparency = MAX_TRANSPARENCY => geom[i].bar_alpha = 0
      /\ \A t \in 0..opts.transparency : overlay_alpha(t) >= geom[i].bar_alpha

\* a bar laid at transparency 80
C9_Witness ==
  /\ Did(1, "OverlayBar")
  /\ opts.transparency = 80
  /\ geom[1].bar_alpha = 50

\* ---- C10 ----
BarOnly(i) ==
  /\ images[i].mode = "RGB"
  /\ ~opts.crop_to_hd /\ opts.blur = 0 /\ opts.transparency = 0
  /\ ~opts.logo.present /\ ~opts.text.present
  /\ Did(i, "OverlayBar")

\* C10: an RGB image processed with no logo, no text, no crop, no blur and
\* transparency 0 keeps its dimensions; every pixel in a row at or below the
\* overlay height keeps its value, and every pixel of the band above is
\* opaque white.
C10_OnlyBandChanges ==
  \A i \in Images :
    BarOnly(i) =>
      /\ canvas[i].w = images[i].w /\ canvas[i].h = images[i].h
      /\ \A x \in 0..(canvas[i].w - 1), y \in 0..(canvas[i].h - 1) :
           PixelAt(canvas[i], x, y) =
             (IF y < overlay_height(images[i].h) THEN "white" ELSE "input")

\* such an image saved, with a band of two rows and pixels below it
C10_Witness ==
  /\ BarOnly(1) /\ outcome[1].status = "processed"
  /\ images[1].h = 24
  /\ PixelAt(canvas[1], 0, 1) = "white"
  /\ PixelAt(canvas[1], 0, 2) = "input"

====
